---- MODULE Spec2Model ----
(***************************************************************************)
(* Model of the GraphQL resolver layer of the book search engine           *)
(* (server/src/schemas/resolvers.ts): the queries user and me and the      *)
(* mutations createUser, loginUser, saveBook and deleteBook over the User  *)
(* document store.                                                         *)
(*                                                                         *)
(* The store is the sequence `users`: the document with _id i is users[i]. *)
(* Every resolver is an operator that maps the store and its arguments to  *)
(* an outcome (the store afterwards, what was thrown, what was returned    *)
(* and how often the collaborators were called); the actions of Spec run   *)
(* one resolver to completion, the actions of SpecConc run two resolver    *)
(* calls step by step with the store's update as the only atomic step.     *)
(***************************************************************************)
EXTENDS Integers, Sequences, FiniteSets

VARIABLES
    users,   \* the User collection: users[i] is the document with _id i
    pre,     \* history: the User collection when the last call(s) began
    last,    \* history: the last resolver call of Spec and its outcome
    reqs     \* SpecConc: the two resolver calls in flight

vars == <<users, pre, last, reqs>>

----------------------------------------------------------------------------
(* Bounds and input domains *)

MaxStored == 3        \* embedded Book entries held by the whole store
MaxInputBooks == 2    \* length of the savedBooks of a createUser input
MaxInitBooks == 2     \* length of savedBooks when the concurrent calls begin

Usernames == {"alice", "bob"}
Emails == {"a@x.com", "b@x.com"}
Passwords == {"p", "q"}       \* passwords tried at login
SignupPasswords == {"p"}      \* passwords chosen at sign-up
BookIds == {"b1", "b2"}

\* BookInput (resolvers.ts 39-46): bookId and title vary, the rest is fixed
Book(bookId, title) ==
    [bookId |-> bookId, title |-> title, authors |-> <<"ann">>, description |-> "d",
     image |-> "", link |-> ""]

\* two Books that share a bookId and differ in title, and one with another bookId
Books == { Book("b1", "t1"), Book("b1", "t2"), Book("b2", "t1") }

RECURSIVE SeqsUpTo(_, _)
SeqsUpTo(S, n) ==
    IF n = 0 THEN { <<>> }
    ELSE LET shorter == SeqsUpTo(S, n - 1)
         IN  shorter \cup { Append(s, x) : s \in { t \in shorter : Len(t) = n - 1 }, x \in S }

----------------------------------------------------------------------------
(* Values *)

Null == [null |-> TRUE]

\* context.user: null, or the identity the auth middleware attached
Identities == { [_id |-> i] : i \in 1..Cardinality(Usernames) }
Contexts == { [user |-> u] : u \in {Null} \cup Identities }

\* if (context.user)
Truthy(v) == v # Null

NoThrow == [kind |-> "none", class |-> "", message |-> ""]

\* new AuthenticationError(msg): an instance of the class
NewAuthenticationError(msg) ==
    [kind |-> "instance", class |-> "AuthenticationError", message |-> msg]

\* the expression AuthenticationError: the class (constructor) itself
AuthenticationErrorClass ==
    [kind |-> "constructor", class |-> "AuthenticationError", message |-> ""]

\* the store's duplicate-key error on a unique index
DuplicateKeyError ==
    [kind |-> "instance", class |-> "MongoServerError", message |-> "E11000"]

NoToken == <<>>

\* signToken(username, email, id) of utils/auth
signToken(username, email, id) == <<"jwt", username, email, id>>

\* the User model's pre-save password hash and isCorrectPassword
HashPassword(plain) == <<"bcrypt", plain>>
isCorrectPassword(doc, plain) == doc.password = HashPassword(plain)

\* the document a query hands back: the stored fields plus the bookCount virtual
bookCount(doc) == Len(doc.savedBooks)
Doc(us, id) ==
    [_id |-> id, username |-> us[id].username, email |-> us[id].email,
     password |-> us[id].password, savedBooks |-> us[id].savedBooks,
     bookCount |-> bookCount(us[id])]

Outcome(us, threw, doc, token, reads, writes, signs, compares) ==
    [users |-> us, threw |-> threw, user |-> doc, token |-> token,
     reads |-> reads, writes |-> writes, signs |-> signs, compares |-> compares]

----------------------------------------------------------------------------
(* The store collaborator *)

Min(S) == CHOOSE x \in S : \A y \in S : x <= y

\* User.findOne({ username }) / ({ email }) / ({ _id }): the _id found, 0 for none
FindOneByUsername(us, username) ==
    LET hits == { i \in DOMAIN us : us[i].username = username }
    IN  IF hits = {} THEN 0 ELSE Min(hits)
FindOneByEmail(us, email) ==
    LET hits == { i \in DOMAIN us : us[i].email = email }
    IN  IF hits = {} THEN 0 ELSE Min(hits)
FindOneById(us, id) == IF id \in DOMAIN us THEN id ELSE 0

DocOrNull(us, id) == IF id = 0 THEN Null ELSE Doc(us, id)

\* variants of $addToSet: $push, and a set keyed by bookId alone
Push(savedBooks, input) == Append(savedBooks, input)
AddToSetByBookId(savedBooks, input) ==
    IF \E i \in 1..Len(savedBooks) : savedBooks[i].bookId = input.bookId
    THEN savedBooks
    ELSE Append(savedBooks, input)

\* { $addToSet: { savedBooks: input } }
AddToSet(savedBooks, input) ==
    IF \E i \in 1..Len(savedBooks) : savedBooks[i] = input
    THEN savedBooks
    ELSE Append(savedBooks, input)

\* variant of $pull: only the first matching entry goes
PullFirst(savedBooks, bookId) ==
    LET hits == { i \in 1..Len(savedBooks) : savedBooks[i].bookId = bookId }
    IN  IF hits = {} THEN savedBooks
        ELSE SubSeq(savedBooks, 1, Min(hits) - 1)
                 \o SubSeq(savedBooks, Min(hits) + 1, Len(savedBooks))

\* { $pull: { savedBooks: { bookId: bookId } } }
Pull(savedBooks, bookId) ==
    LET keep(b) == b.bookId # bookId IN SelectSeq(savedBooks, keep)

ApplyUpdate(savedBooks, update) ==
    IF update.op = "$addToSet" THEN AddToSet(savedBooks, update.arg)
    ELSE Pull(savedBooks, update.arg)

\* variant of findOneAndUpdate: the update reaches every document (updateMany)
UpdateMany(us, id, update) ==
    [i \in DOMAIN us |-> [us[i] EXCEPT !.savedBooks = ApplyUpdate(@, update)]]

\* User.findOneAndUpdate({ _id }, update, { new: true }): the store afterwards;
\* no document matches an unknown _id and none is created
FindOneAndUpdate(us, id, update) ==
    IF id \in DOMAIN us
    THEN [us EXCEPT ![id].savedBooks = ApplyUpdate(@, update)]
    ELSE us

\* the unique indexes on username and email
Collides(us, input) ==
    \E i \in DOMAIN us : us[i].username = input.username \/ us[i].email = input.email

\* User.create({ ...input }): one new document, its _id the next one
Create(us, input) ==
    Append(us, [username |-> input.username, email |-> input.email,
                password |-> HashPassword(input.password),
                savedBooks |-> input.savedBooks])

----------------------------------------------------------------------------
(* The resolvers *)

\* Query.user
user(us, username) ==
    Outcome(us, NoThrow, DocOrNull(us, FindOneByUsername(us, username)), NoToken, 1, 0, 0, 0)

\* variant of me: the filter's _id is lost, so findOne yields the first document
meFirstDocument(us, context) ==
    IF Truthy(context.user)
    THEN Outcome(us, NoThrow, DocOrNull(us, IF us = <<>> THEN 0 ELSE 1), NoToken, 1, 0, 0, 0)
    ELSE Outcome(us, NewAuthenticationError("Not Authenticated"), Null, NoToken, 0, 0, 0, 0)

\* Query.me
me(us, context) ==
    IF Truthy(context.user)
    THEN Outcome(us, NoThrow, DocOrNull(us, FindOneById(us, context.user._id)),
                 NoToken, 1, 0, 0, 0)
    ELSE Outcome(us, NewAuthenticationError("Not Authenticated"), Null, NoToken, 0, 0, 0, 0)

\* Mutation.createUser
createUser(us, input) ==
    IF Collides(us, input)
    THEN Outcome(us, DuplicateKeyError, Null, NoToken, 0, 1, 0, 0)
    ELSE LET after == Create(us, input)
             id == Len(after)
         IN  Outcome(after, NoThrow, Doc(after, id),
                     signToken(after[id].username, after[id].email, id), 0, 1, 1, 0)

\* variant of loginUser: the result of the password comparison is ignored
loginUserAnyPassword(us, email, password) ==
    LET id == FindOneByEmail(us, email)
    IN  IF id = 0
        THEN Outcome(us, AuthenticationErrorClass, Null, NoToken, 1, 0, 0, 0)
        ELSE Outcome(us, NoThrow, Doc(us, id),
                     signToken(us[id].username, us[id].email, id), 1, 0, 1, 1)

\* Mutation.loginUser
loginUser(us, email, password) ==
    LET id == FindOneByEmail(us, email)
    IN  IF id = 0
        THEN Outcome(us, AuthenticationErrorClass, Null, NoToken, 1, 0, 0, 0)
        ELSE IF ~isCorrectPassword(us[id], password)
        THEN Outcome(us, NewAuthenticationError("Not authenticated"), Null, NoToken, 1, 0, 0, 1)
        ELSE Outcome(us, NoThrow, Doc(us, id),
                     signToken(us[id].username, us[id].email, id), 1, 0, 1, 1)

\* variant of saveBook: without context.user it returns null instead of throwing
saveBookNoThrow(us, input, context) ==
    IF Truthy(context.user)
    THEN LET after == FindOneAndUpdate(us, context.user._id,
                                       [op |-> "$addToSet", arg |-> input])
         IN  Outcome(after, NoThrow, DocOrNull(after, FindOneById(after, context.user._id)),
                     NoToken, 0, 1, 0, 0)
    ELSE Outcome(us, NoThrow, Null, NoToken, 0, 0, 0, 0)

\* Mutation.saveBook
saveBook(us, input, context) ==
    IF Truthy(context.user)
    THEN LET after == FindOneAndUpdate(us, context.user._id,
                                       [op |-> "$addToSet", arg |-> input])
         IN  Outcome(after, NoThrow, DocOrNull(after, FindOneById(after, context.user._id)),
                     NoToken, 0, 1, 0, 0)
    ELSE Outcome(us, NewAuthenticationError("Could not find user"), Null, NoToken, 0, 0, 0, 0)

\* Mutation.deleteBook
deleteBook(us, bookId, context) ==
    IF Truthy(context.user)
    THEN LET after == FindOneAndUpdate(us, context.user._id,
                                       [op |-> "$pull", arg |-> bookId])
         IN  Outcome(after, NoThrow, DocOrNull(after, FindOneById(after, context.user._id)),
                     NoToken, 0, 1, 0, 0)
    ELSE Outcome(us, NewAuthenticationError("Could not find user"), Null, NoToken, 0, 0, 0, 0)

----------------------------------------------------------------------------
(* Spec: one resolver call at a time *)

RECURSIVE TotalStored(_)
TotalStored(us) ==
    IF us = <<>> THEN 0
    ELSE Len(us[Len(us)].savedBooks) + TotalStored(SubSeq(us, 1, Len(us) - 1))

NoContext == [user |-> Null]

Record(op, context, arg, o) ==
    [op |-> op, context |-> context, arg |-> arg, threw |-> o.threw, user |-> o.user,
     token |-> o.token, reads |-> o.reads, writes |-> o.writes, signs |-> o.signs,
     compares |-> o.compares]

Finish(op, context, arg, o) ==
    /\ TotalStored(o.users) <= MaxStored
    /\ users' = o.users
    /\ pre' = users
    /\ last' = Record(op, context, arg, o)
    /\ UNCHANGED reqs

\* the createUser inputs whose savedBooks fit the room left in the bounded store
UserInputs(room) ==
    { [username |-> n, email |-> e, password |-> p, savedBooks |-> bs] :
        n \in Usernames, e \in Emails, p \in SignupPasswords,
        bs \in SeqsUpTo(Books, IF room < MaxInputBooks THEN room ELSE MaxInputBooks) }

User == \E username \in Usernames :
    Finish("user", NoContext, username, user(users, username))

Me == \E context \in Contexts :
    Finish("me", context, "", me(users, context))

CreateUser == \E input \in UserInputs(MaxStored - TotalStored(users)) :
    Finish("createUser", NoContext, input.username, createUser(users, input))

LoginUser == \E email \in Emails, password \in Passwords :
    Finish("loginUser", NoContext, <<email, password>>, loginUser(users, email, password))

SaveBook == \E input \in Books, context \in Contexts :
    Finish("saveBook", context, input, saveBook(users, input, context))

DeleteBook == \E bookId \in BookIds, context \in Contexts :
    Finish("deleteBook", context, bookId, deleteBook(users, bookId, context))

NoCall ==
    [op |-> "none", context |-> NoContext, arg |-> "", threw |-> NoThrow, user |-> Null,
     token |-> NoToken, reads |-> 0, writes |-> 0, signs |-> 0, compares |-> 0]

Init ==
    /\ users = <<>>
    /\ pre = <<>>
    /\ last = NoCall
    /\ reqs = <<>>

Next == User \/ Me \/ CreateUser \/ LoginUser \/ SaveBook \/ DeleteBook

Spec == Init /\ [][Next]_vars

----------------------------------------------------------------------------
(* Properties of Spec.  `last` is the call that led to the current state,   *)
(* `pre` the store it started from and `users` the store it left.           *)

CountEqual(savedBooks, book) ==
    Cardinality({ i \in 1..Len(savedBooks) : savedBooks[i] = book })
CountBookId(savedBooks, bookId) ==
    Cardinality({ i \in 1..Len(savedBooks) : savedBooks[i].bookId = bookId })

Authenticated == Truthy(last.context.user)
\* the authenticated call addressed a stored user
Resolved == Authenticated /\ last.context.user._id \in DOMAIN pre
Caller == last.context.user._id

\* C1: saveBook and deleteBook called with an absent context.user throw
\* AuthenticationError("Could not find user"), make no store call and leave
\* every user's savedBooks and the set of users as they were.
C1_UnauthenticatedMutationFails ==
    (last.op \in {"saveBook", "deleteBook"} /\ ~Authenticated) =>
        /\ last.threw = NewAuthenticationError("Could not find user")
        /\ last.user = Null
        /\ last.reads = 0 /\ last.writes = 0
        /\ users = pre

C1_Witness ==
    /\ last.op = "deleteBook" /\ ~Authenticated
    /\ \E i \in DOMAIN pre : CountBookId(pre[i].savedBooks, last.arg) > 0

\* C2: saveBook is idempotent under full-field equality: after an authenticated
\* saveBook of a Book for a stored user, the same call again changes nothing and
\* returns the same user, and the Book is held exactly once if it was held at
\* most once before.
C2_SaveBookIdempotent ==
    (last.op = "saveBook" /\ Resolved) =>
        LET again == saveBook(users, last.arg, last.context)
        IN  /\ again.users = users
            /\ again.user = last.user
            /\ again.threw = NoThrow
            /\ CountEqual(pre[Caller].savedBooks, last.arg) <= 1
                   => CountEqual(users[Caller].savedBooks, last.arg) = 1

\* the second of two identical saveBook calls has run
C2_Witness ==
    /\ last.op = "saveBook" /\ Resolved
    /\ CountEqual(pre[Caller].savedBooks, last.arg) = 1
    /\ users = pre
    /\ Len(users[Caller].savedBooks) >= 2

\* C3: no user's savedBooks ever holds two entries equal in every field.
C3_NoFullDuplicates ==
    \A i \in DOMAIN users :
        \A j, k \in 1..Len(users[i].savedBooks) :
            j # k => users[i].savedBooks[j] # users[i].savedBooks[k]

\* C4: saveBook does not deduplicate by bookId alone: when the caller's
\* savedBooks holds an entry with the input's bookId and the input's title
\* differs from the title of the entries with that bookId, the input is added
\* as a further entry, bookCount grows by one and at least two entries then
\* carry that bookId (exactly two when one did before).
C4_NoDedupByBookId ==
    LET before == pre[Caller].savedBooks
        after == users[Caller].savedBooks
        sameId == { i \in 1..Len(before) : before[i].bookId = last.arg.bookId }
    IN  (/\ last.op = "saveBook" /\ Resolved
         /\ sameId # {}
         /\ \A i \in sameId : before[i].title # last.arg.title) =>
            /\ after = Append(before, last.arg)
            /\ last.user.bookCount = Len(before) + 1
            /\ last.user.savedBooks = after
            /\ CountBookId(after, last.arg.bookId) = Cardinality(sameId) + 1
            /\ CountBookId(after, last.arg.bookId) >= 2

C4_Witness ==
    /\ last.op = "saveBook" /\ Resolved
    /\ CountBookId(pre[Caller].savedBooks, last.arg.bookId) = 1
    /\ CountEqual(pre[Caller].savedBooks, last.arg) = 0
    /\ CountBookId(users[Caller].savedBooks, last.arg.bookId) = 2

\* C5: an authenticated deleteBook(bookId) for a stored user removes every
\* entry with that bookId and no other entry, returns the updated user without
\* error, lowers bookCount by the number of matching entries and, when nothing
\* matches, leaves savedBooks as it was.
C5_DeleteBookRemovesAllMatches ==
    (last.op = "deleteBook" /\ Resolved) =>
        LET before == pre[Caller].savedBooks
            after == users[Caller].savedBooks
            matches == CountBookId(before, last.arg)
        IN  /\ CountBookId(after, last.arg) = 0
            /\ \A b \in Books : b.bookId # last.arg
                   => CountEqual(after, b) = CountEqual(before, b)
            /\ Len(after) = Len(before) - matches
            /\ matches = 0 => after = before
            /\ last.threw = NoThrow
            /\ last.user = Doc(users, Caller)
            /\ last.user.bookCount = Len(before) - matches

\* two matching entries were removed and an entry with another bookId was kept
C5_Witness ==
    /\ last.op = "deleteBook" /\ Resolved
    /\ CountBookId(pre[Caller].savedBooks, last.arg) = 2
    /\ Len(users[Caller].savedBooks) = 1

\* C6: loginUser with an email that matches no stored user throws an
\* AuthenticationError instance, returns no {token, user}, issues no token and
\* does not reach the password comparison.
C6_UnknownEmailThrowsAuthenticationError ==
    (last.op = "loginUser" /\ FindOneByEmail(pre, last.arg[1]) = 0) =>
        /\ last.threw.kind = "instance"
        /\ last.threw.class = "AuthenticationError"
        /\ last.user = Null /\ last.token = NoToken
        /\ last.signs = 0 /\ last.compares = 0

\* C7: loginUser with a stored email and a password that isCorrectPassword
\* rejects throws AuthenticationError("Not authenticated"), never calls
\* signToken and leaves the store unchanged; a token is issued only after one
\* lookup that found a user and one comparison that accepted the password, and
\* it is signed from that user's username, email and id.
C7_WrongPasswordNoToken ==
    last.op = "loginUser" =>
        LET id == FindOneByEmail(pre, last.arg[1])
        IN  /\ users = pre
            /\ (id # 0 /\ ~isCorrectPassword(pre[id], last.arg[2])) =>
                   /\ last.threw = NewAuthenticationError("Not authenticated")
                   /\ last.signs = 0 /\ last.token = NoToken /\ last.user = Null
            /\ (last.signs > 0 \/ last.token # NoToken) =>
                   /\ id # 0
                   /\ last.reads = 1 /\ last.compares = 1 /\ last.signs = 1
                   /\ isCorrectPassword(pre[id], last.arg[2])
                   /\ last.token = signToken(pre[id].username, pre[id].email, id)
                   /\ last.user = Doc(pre, id)
                   /\ last.threw = NoThrow

\* a login with a stored email and a wrong password has run
C7_Witness ==
    /\ last.op = "loginUser"
    /\ FindOneByEmail(pre, last.arg[1]) # 0
    /\ last.compares = 1
    /\ last.token = NoToken

\* C8: me with an absent context.user throws AuthenticationError("Not
\* Authenticated") without any store call; with a context.user it makes one
\* lookup by that id and returns what the store holds: the user with bookCount
\* equal to the length of savedBooks, or nothing when the id does not resolve.
C8_MeRequiresContext ==
    last.op = "me" =>
        /\ users = pre
        /\ last.writes = 0
        /\ ~Authenticated =>
               /\ last.threw = NewAuthenticationError("Not Authenticated")
               /\ last.reads = 0
               /\ last.user = Null
        /\ Authenticated =>
               /\ last.threw = NoThrow
               /\ last.reads = 1
               /\ Caller \notin DOMAIN users => last.user = Null
               /\ Caller \in DOMAIN users =>
                      /\ last.user._id = Caller
                      /\ last.user.username = users[Caller].username
                      /\ last.user.email = users[Caller].email
                      /\ last.user.savedBooks = users[Caller].savedBooks
                      /\ last.user.bookCount = Len(users[Caller].savedBooks)

\* me returned the second user, who holds books while the first holds others
C8_Witness ==
    /\ last.op = "me" /\ Authenticated
    /\ Caller = 2 /\ Caller \in DOMAIN users
    /\ last.user.bookCount = 2
    /\ users[1].savedBooks # users[2].savedBooks

\* C9: saveBook and deleteBook change at most the savedBooks of the user whose
\* id is the context's; every other user's savedBooks, every user's username,
\* email and password and the set of users stay as they were; when the id
\* resolves to no user the call returns nothing, creates no user and changes
\* nothing.  user, me and loginUser never change the store.
C9_Isolation ==
    /\ last.op \in {"saveBook", "deleteBook"} =>
           /\ DOMAIN users = DOMAIN pre
           /\ \A i \in DOMAIN pre :
                  /\ users[i].username = pre[i].username
                  /\ users[i].email = pre[i].email
                  /\ users[i].password = pre[i].password
                  /\ (~Authenticated \/ i # Caller) => users[i] = pre[i]
           /\ (Authenticated /\ ~Resolved) =>
                  /\ users = pre
                  /\ last.user = Null
                  /\ last.threw = NoThrow
    /\ last.op \in {"user", "me", "loginUser"} => users = pre

\* a saveBook changed one of two users, the other one holding books
C9_Witness ==
    /\ last.op = "saveBook" /\ Resolved
    /\ Len(users) = 2
    /\ users # pre
    /\ \E i \in DOMAIN users : i # Caller /\ users[i].savedBooks # <<>>

----------------------------------------------------------------------------
(* SpecConc: two saveBook/deleteBook calls in flight at once.  A call       *)
(* tests context.user, awaits the store's findOneAndUpdate, which the store *)
(* applies to the document in one atomic step, and returns what it yielded. *)

Calls ==
    { [op |-> "saveBook", arg |-> b] : b \in Books }
        \cup { [op |-> "deleteBook", arg |-> id] : id \in BookIds }

Request(call, context) ==
    [op |-> call.op, arg |-> call.arg, context |-> context, pc |-> "called",
     threw |-> NoThrow, user |-> Null]

Resolve(us, req) ==
    IF req.op = "saveBook" THEN saveBook(us, req.arg, req.context)
    ELSE deleteBook(us, req.arg, req.context)

\* the stores the calls may find: one user holding any savedBooks
InitialStores ==
    { Create(<<>>, [username |-> "alice", email |-> "a@x.com", password |-> "p",
                    savedBooks |-> bs]) : bs \in SeqsUpTo(Books, MaxInitBooks) }

InitConc ==
    /\ users \in InitialStores
    /\ pre = users
    /\ last = NoCall
    /\ \E c1 \in Calls, c2 \in Calls, x1 \in Contexts, x2 \in Contexts :
           reqs = <<Request(c1, x1), Request(c2, x2)>>

\* if (context.user) ... else throw new AuthenticationError(...)
Enter(r) ==
    /\ reqs[r].pc = "called"
    /\ IF Truthy(reqs[r].context.user)
       THEN reqs' = [reqs EXCEPT ![r].pc = "awaiting"]
       ELSE reqs' = [reqs EXCEPT ![r].pc = "done",
                                 ![r].threw = Resolve(users, reqs[r]).threw]
    /\ UNCHANGED <<users, pre, last>>

\* findOneAndUpdate is atomic on its document: the update of call r is applied
\* to the collection as it is at the step the store runs it.  The variant
\* computes it from the collection as it was when the calls began.
CollectionAsRead(r) == pre
CollectionAtUpdate(r) == users

\* the store applies the findOneAndUpdate of call r
StoreUpdate(r) ==
    /\ reqs[r].pc = "awaiting"
    /\ LET o == Resolve(CollectionAtUpdate(r), reqs[r])
       IN  /\ users' = o.users
           /\ reqs' = [reqs EXCEPT ![r].pc = "resumable", ![r].user = o.user,
                                   ![r].threw = o.threw]
    /\ UNCHANGED <<pre, last>>

\* return await ...
Return(r) ==
    /\ reqs[r].pc = "resumable"
    /\ reqs' = [reqs EXCEPT ![r].pc = "done"]
    /\ UNCHANGED <<users, pre, last>>

NextConc == \E r \in 1..2 : Enter(r) \/ StoreUpdate(r) \/ Return(r)

SpecConc == InitConc /\ [][NextConc]_vars

AllDone == \A r \in DOMAIN reqs : reqs[r].pc = "done"

\* both calls are authenticated as the stored user
BothForUser(id) ==
    \A r \in DOMAIN reqs : reqs[r].context = [user |-> [_id |-> id]]

\* the store and the two results are those of running call i, then call j
SerialOrder(i, j) ==
    LET first == Resolve(pre, reqs[i])
        second == Resolve(first.users, reqs[j])
    IN  /\ users = second.users
        /\ reqs[i].user = first.user /\ reqs[i].threw = first.threw
        /\ reqs[j].user = second.user /\ reqs[j].threw = second.threw

\* C10: with findOneAndUpdate atomic on its document, no update is lost: two
\* concurrent saveBook calls with different Books for the same user end with
\* both Books held (each once if it was absent before); a concurrent
\* saveBook(A) and deleteBook(b), b not A's bookId, end with A held and no
\* entry with bookId b; and the outcome is that of one of the two serial orders.
C10_NoLostUpdate ==
    (reqs # <<>> /\ AllDone) =>
        /\ SerialOrder(1, 2) \/ SerialOrder(2, 1)
        /\ \A i, j \in DOMAIN reqs :
               (i # j /\ BothForUser(1) /\ reqs[i].op = "saveBook") =>
                   LET A == reqs[i].arg
                       final == users[1].savedBooks
                   IN  /\ (reqs[j].op = "saveBook" /\ reqs[j].arg # A) =>
                              /\ CountEqual(final, A) >= 1
                              /\ CountEqual(final, reqs[j].arg) >= 1
                              /\ CountEqual(pre[1].savedBooks, A) = 0
                                     => CountEqual(final, A) = 1
                       /\ (reqs[j].op = "deleteBook" /\ reqs[j].arg # A.bookId) =>
                              /\ CountEqual(final, A) >= 1
                              /\ CountBookId(final, reqs[j].arg) = 0

\* two saveBook calls with different Books, both absent before, have finished
C10_Witness ==
    /\ reqs # <<>> /\ AllDone /\ BothForUser(1)
    /\ reqs[1].op = "saveBook" /\ reqs[2].op = "saveBook"
    /\ reqs[1].arg # reqs[2].arg
    /\ CountEqual(pre[1].savedBooks, reqs[1].arg) = 0
    /\ CountEqual(pre[1].savedBooks, reqs[2].arg) = 0
    /\ pre[1].savedBooks # <<>>
    /\ users[1].savedBooks = pre[1].savedBooks \o <<reqs[2].arg, reqs[1].arg>>

====
